---- MODULE Spec2Model ----
(***************************************************************************)
(* Fraud Risk Decision Engine: the decision policy                         *)
(* (src/fraud_engine/decision_policy.py), the ML scorer with its fallback  *)
(* (src/fraud_engine/ml_inference.py), the rule checks                     *)
(* (src/fraud_engine/alarms.py, src/fraud_engine/rules/*.py) and the       *)
(* /score_claim handler (src/api/endpoints/score_claim.py).                *)
(*                                                                         *)
(* Numbers.  Python floats are kept as fixed-point integers counted in     *)
(* hundredths: the float 0.30 is 30, 1.0 is 100, 85.0 is 8500.  The        *)
(* probabilities handed to get_decision are on the 0-100 scale its         *)
(* docstring names, so 85.0 (85 percent) is 8500.                          *)
(***************************************************************************)
EXTENDS Integers, Sequences, FiniteSets, TLC

(***************************************************************************)
(* Bounds of the model                                                     *)
(***************************************************************************)
\* longest alarm list handed to the decision policy
MaxAlarms == 5
\* most claims the history store returns for one claimant
MaxHistory == 4

(***************************************************************************)
(* Program constants (fixed-point, hundredths)                             *)
(***************************************************************************)
THRESHOLD_APPROVE == 30
THRESHOLD_REVIEW == 70
ALARM_WEIGHT == 10
HIGH_SEVERITY_WEIGHT == 20
\* config.py (dollars, claims, hundredths, miles, hundredths)
HIGH_AMOUNT_THRESHOLD == 10000
REPEAT_CLAIM_THRESHOLD == 3
SIMILARITY_THRESHOLD == 80
LOCATION_DISTANCE_THRESHOLD == 100
ML_FRAUD_THRESHOLD == 70
\* rules/time_patterns.py, rules/external_mismatch.py
MIN_GAP_HOURS == 24
COLD_TEMP_THRESHOLD == 20
\* alarms.py: late reporting limit (days)
LATE_REPORT_LIMIT == 7

Min(a, b) == IF a < b THEN a ELSE b

\* models/fraud.py Decision and AlarmSeverity (the enum values)
Decisions == {"Approve", "Review", "Reject"}
Severities == {"low", "medium", "high"}

VARIABLES
    \* ---- decision policy called as a function --------------------------
    p_pc,        \* "input" | "decided"
    p_prob,      \* fraud_prob argument of get_decision (0-100 scale, hundredths)
    p_alarms,    \* alarms argument: sequence of FraudAlarm
    p_decision,  \* value returned by the last get_decision call, "none" before
    p_prev       \* value returned before the last alarm was added, "none" if none was

policyVars == <<p_pc, p_prob, p_alarms, p_decision, p_prev>>

VARIABLES
    \* ---- process-wide state ---------------------------------------------
    config_env,       \* config.ENV
    model,            \* ml_inference.model: "None" or "loaded"
    is_model_loaded,  \* ml_inference.is_model_loaded
    \* ---- one scoring call ------------------------------------------------
    pc,          \* position of the call
    entry,       \* "endpoint": POST /score_claim; "direct": check_all_alarms(claim, db)
    claim,       \* the validated ClaimData
    db,          \* the db argument: "none" | "up" | "readonly" | "down"
    raw_alarms,  \* alarms built by check_all_alarms (messages)
    alarms,      \* List[FraudAlarm] built by the handler
    fraud_prob,  \* the handler's fraud_prob, hundredths; -1 before it is set
    backend,     \* what produced fraud_prob: "none" | "model" | "fallback"
    ml_failed,   \* the model was missing or its predict call raised in this call
    ml_enabled,  \* the handler's ml_enabled (value of require_ml_model)
    features,    \* the FraudFeatures the handler builds
    saved,       \* what save_claim_to_db did in this call: "no", "yes", "failed"
    outcome,     \* "none" | "result" | "http500" | "http422" | "alarms" | "raised"
    response     \* the FraudResponse returned, NoResponse when none

VARIABLES
    \* ---- extract_features called as a function ---------------------------
    f_pc,        \* "input" | "done"
    f_claim,     \* the claim argument
    f_db,        \* the db argument: "none" | "up" | "down"
    f_alarms,    \* the alarms argument: strings or FraudAlarm objects
    f_signals,   \* what the collaborators answered during the call
    f_out        \* what the call did: NoExtract before it returns

featVars == <<f_pc, f_claim, f_db, f_alarms, f_signals, f_out>>

VARIABLES
    \* ---- one explanation lookup -------------------------------------------
    x_pc,        \* "input" | "done"
    x_req,       \* the lookup: who is asked, the alarm type, config.DEBUG, token
    x_out        \* what the caller got: status, type and severity

explainVars == <<x_pc, x_req, x_out>>

VARIABLES
    \* ---- load_fraud_model and get_fraud_probability called in sequence ----
    h_last,      \* the last call: its arguments, the state before it, its result
    h_seen       \* the values get_fraud_probability returned so far, with the
                 \* branch that produced each

handleVars == <<h_last, h_seen>>

VARIABLES
    \* ---- the history-dependent checks called as functions ----------------
    r_pc,        \* "input" | "done"
    r_claim,     \* the claim argument
    r_db,        \* the db argument: "none" | "up" | "down"
    r_hist,      \* what the history queries answered during the calls
    r_out        \* the alarms each check returned

ruleVars == <<r_pc, r_claim, r_db, r_hist, r_out>>

VARIABLES
    \* ---- the in-memory cache and the threads that call it -----------------
    cache_store, \* _cache_store: key -> (value, expire_time), present keys only
    cache_lock,  \* _cache_lock: 0 when free, else the thread that holds it
    c_now,       \* datetime.now(), in ticks
    c_op,        \* per thread: the call it is inside of (NoOp when outside)
    c_latest,    \* per key: the latest cache_set not followed by a delete or
                 \* clear of the key, kept whether or not it has expired
    c_last       \* the last cache_get that returned: key, time, result, and
                 \* what c_latest held for the key

cacheVars == <<cache_store, cache_lock, c_now, c_op, c_latest, c_last>>

VARIABLES
    \* ---- scoring runs that call the vendor check concurrently ------------
    v_pc,        \* per run: "idle" | "missed" | "done"
    v_in,        \* per run: the claim, the db argument, the vendor API's answer
    v_out        \* per run: the alarms rules/vendor_fraud.py returned

vendorVars == <<v_pc, v_in, v_out>>

auxVars == <<explainVars, handleVars, ruleVars, cacheVars, vendorVars>>

globalVars == <<config_env, model, is_model_loaded>>
callVars == <<pc, entry, claim, db, raw_alarms, alarms, fraud_prob, backend,
              ml_failed, ml_enabled, features, saved, outcome, response>>

(***************************************************************************)
(* Python values: get_decision is called with a list in the unit tests and *)
(* with an int (len(alarms)) in the request handler.                       *)
(***************************************************************************)
PyList(s) == [kind |-> "list", items |-> s, val |-> 0]
PyInt(n) == [kind |-> "int", items |-> <<>>, val |-> n]

\* len(x): defined on lists, TypeError on an int
HasLen(x) == x.kind = "list"

HighCount(s) == Cardinality({i \in 1..Len(s) : s[i].severity = "high"})

\* round(x / 100) with x in ten-thousandths: Python's round(v, 2), to the
\* nearest hundredth, ties to even
Round2(x) ==
    LET q == x \div 100
        r == x % 100
    IN  IF r < 50 THEN q
        ELSE IF r > 50 THEN q + 1
        ELSE IF q % 2 = 0 THEN q ELSE q + 1

\* a variant of _compute_risk_score that takes the HIGH-severity weight off
\* the score instead of adding it
compute_risk_score_neg(prob, s) ==
    Round2(Min(prob, 10000)
           + 100 * (Len(s) * ALARM_WEIGHT - HighCount(s) * HIGH_SEVERITY_WEIGHT))

\* _compute_risk_score(prob, alarms), for a list s; the result in hundredths
compute_risk_score(prob, s) ==
    Round2(Min(prob, 10000)
           + 100 * (Len(s) * ALARM_WEIGHT + HighCount(s) * HIGH_SEVERITY_WEIGHT))

\* get_decision(fraud_prob, alarms): "TypeError" when alarms has no len()
get_decision(prob, alarm_arg) ==
    IF ~HasLen(alarm_arg) THEN "TypeError"
    ELSE LET s == alarm_arg.items
             total_risk == compute_risk_score(prob, s)
             num_alarms == Len(s)
         IN  IF total_risk < THRESHOLD_APPROVE \/ (num_alarms = 0 /\ prob < 2000)
                 THEN "Approve"
             ELSE IF total_risk < THRESHOLD_REVIEW \/ num_alarms <= 3
                 THEN "Review"
             ELSE "Reject"

\* a variant of get_simple_decision whose second test needs both a low
\* probability and few alarms
get_simple_decision_both(prob, num_alarms) ==
    IF prob < 3000 /\ num_alarms = 0 THEN "Approve"
    ELSE IF prob < 7000 /\ num_alarms <= 3 THEN "Review"
    ELSE "Reject"

\* get_simple_decision(fraud_prob, num_alarms)
get_simple_decision(prob, num_alarms) ==
    IF prob < 3000 /\ num_alarms = 0 THEN "Approve"
    ELSE IF prob < 7000 \/ num_alarms <= 3 THEN "Review"
    ELSE "Reject"


(***************************************************************************)
(* Claims and the text they carry                                          *)
(***************************************************************************)
Amounts == {2000, 15000}
Providers == {"Trusted Clinic", "shady_clinic", "Out-of-Network Care"}
NotesValues == {"Normal minor claim.", "Staged accident for quick cash",
                "Slipped on ice, cold injury"}
\* report_delay_days, is_new_bank and the submission time (hour of day and
\* day of week of claim.timestamp)
Profiles == { <<2, FALSE, <<12, "Tuesday">> >>,
              <<10, FALSE, <<3, "Tuesday">> >>,
              <<10, TRUE, <<3, "Saturday">> >> }

\* the scenario claims of the end-to-end tests that the product below does
\* not hold: the medium-risk claim, and the low-risk claim filed on a
\* Saturday at 03:00
MediumRiskClaim ==
    [claimant_id |-> "c1", amount |-> 8000, report_delay_days |-> 5,
     provider |-> "Out-of-Network Care", notes |-> "Normal minor claim.",
     location |-> "Los Angeles, CA", is_new_bank |-> FALSE,
     timestamp |-> <<12, "Tuesday">>]

LowRiskWeekendClaim ==
    [claimant_id |-> "c1", amount |-> 2000, report_delay_days |-> 2,
     provider |-> "Trusted Clinic", notes |-> "Normal minor claim.",
     location |-> "Los Angeles, CA", is_new_bank |-> FALSE,
     timestamp |-> <<3, "Saturday">>]

Claims ==
    { [claimant_id |-> "c1", amount |-> a, report_delay_days |-> pr[1],
       provider |-> p, notes |-> n, location |-> "Los Angeles, CA",
       is_new_bank |-> pr[2], timestamp |-> pr[3]] :
      a \in Amounts, p \in Providers, n \in NotesValues, pr \in Profiles }
    \cup {MediumRiskClaim, LowRiskWeekendClaim}

\* request bodies ClaimData rejects: amount not above 0, claimant_id absent
InvalidBodies ==
    { [MediumRiskClaim EXCEPT !.amount = -500],
      [MediumRiskClaim EXCEPT !.claimant_id = "<missing>"] }

\* ClaimData: claimant_id required, amount gt 0, report_delay_days ge 0
ValidClaimData(c) ==
    /\ c.claimant_id # "<missing>"
    /\ c.amount > 0
    /\ c.report_delay_days >= 0

NoClaim == [claimant_id |-> "", amount |-> 0, report_delay_days |-> 0,
            provider |-> "", notes |-> "", location |-> "",
            is_new_bank |-> FALSE, timestamp |-> <<0, "">>]

\* str.lower() on the strings of the model
Lower(str) ==
    CASE str = "Trusted Clinic" -> "trusted clinic"
      [] str = "Out-of-Network Care" -> "out-of-network care"
      [] str = "Normal minor claim." -> "normal minor claim."
      [] str = "Staged accident for quick cash" -> "staged accident for quick cash"
      [] str = "Slipped on ice, cold injury" -> "slipped on ice, cold injury"
      [] OTHER -> str

\* the substring facts (needle in haystack) that hold among the lower-cased
\* strings of the model
SubstringFacts ==
    { <<"out-of-network", "out-of-network care">>,
      <<"shady_clinic", "shady_clinic">>,
      <<"staged accident", "staged accident for quick cash">>,
      <<"quick cash", "staged accident for quick cash">>,
      <<"accident", "staged accident for quick cash">>,
      <<"slip", "slipped on ice, cold injury">>,
      <<"cold", "slipped on ice, cold injury">> }

In(needle, hay) == <<needle, hay>> \in SubstringFacts

\* constants.py SUSPICIOUS_PHRASES, in order
SUSPICIOUS_PHRASES ==
    << "staged accident", "fake injury", "quick cash", "exaggerated pain",
       "ghost patient", "duplicate claim", "cash only", "out-of-network",
       "new bank account", "late reporting", "blacklist hit", "fake vendor",
       "fraudulent billing", "false invoice", "no witnesses", "inflated bill" >>

\* rules/external_mismatch.py WEATHER_SENSITIVE_KEYWORDS
WEATHER_SENSITIVE_KEYWORDS ==
    << "accident", "slip", "fall", "storm", "rain", "wet", "flood", "hail", "wind" >>

\* alarms.py default list without a db, and the seeded blacklist table (db.py)
DefaultBlacklist == << "shady_clinic", "fake_vendor" >>
BlacklistTable == << "shady_clinic", "fake_vendor", "ghost_hospital" >>

\* rules/time_patterns.py UNUSUAL_HOURS
UNUSUAL_HOURS == {2, 3, 4, 5}

SeqFilter(s, Test(_)) == SelectSeq(s, Test)
AnyInSeq(s, Test(_)) == \E i \in 1..Len(s) : Test(s[i])

(***************************************************************************)
(* Answers of the collaborators (history store, text analysis, geo,        *)
(* vendor API, weather): a query either fails or returns a value           *)
(***************************************************************************)
QFail == [ok |-> FALSE, val |-> 0]
QOk(v) == [ok |-> TRUE, val |-> v]

\* the db argument is a truthy session unless it is None
HasDb(d) == d # "none"

\* what a query on the session d may answer, among the values vals
QueryAnswers(d, vals) ==
    IF d = "down" \/ d = "none" THEN {QFail} ELSE {QFail} \cup {QOk(v) : v \in vals}

AvgAmounts == {0, 600, 6000}
ClaimCounts == 0..MaxHistory
\* hours since the claimant's previous claim; -1: no previous claim
GapHours == {-1, 2, 48}
\* highest similarity to a prior note, hundredths; -1: no prior notes
Similarities == {-1, 50, 90}
\* calculate_location_distance: None (QFail) or miles
DistanceAnswers == {QFail, QOk(50), QOk(2445)}
\* analyze_text: raises, or answers with the sentiment it found (hundredths)
NlpAnswers == {QFail, QOk(0), QOk(-60)}
\* vendor API: not configured, or its risk score (hundredths)
VendorApiAnswers == {QFail, QOk(10), QOk(90)}
\* check_weather_at_location: None, or is_rainy and temp
WeatherAnswers == {[ok |-> FALSE, val |-> [is_rainy |-> FALSE, temp |-> 0]],
                   QOk([is_rainy |-> TRUE, temp |-> 10]),
                   QOk([is_rainy |-> FALSE, temp |-> 25]),
                   QOk([is_rainy |-> TRUE, temp |-> 25])}

\* get_blacklist_providers(db): raises when the query fails
get_blacklist_providers(d) ==
    IF d = "down" THEN QFail ELSE QOk(BlacklistTable)

(***************************************************************************)
(* Alarm messages: the bracketed tag names the check, part the sub-rule    *)
(* that wrote the message                                                  *)
(***************************************************************************)
Msg(tag, part) == [tag |-> tag, part |-> part]

\* analyze_text(notes).suspicious_phrases, when the call answers
NlpPhrases(notes) ==
    SeqFilter(SUSPICIOUS_PHRASES, LAMBDA ph : In(ph, Lower(notes)))

\* alarms.py rules 1-5; raised: the blacklist query raised out of the function
LegacyRules(c, d, nlp) ==
    LET provider == Lower(c.provider)
        notes == Lower(c.notes)
        late == IF c.report_delay_days > LATE_REPORT_LIMIT
                THEN << Msg("LATE-REPORT", "delay") >> ELSE << >>
        bank == IF c.is_new_bank THEN << Msg("NEW-BANK", "new") >> ELSE << >>
        net == IF In("out-of-network", provider) \/ In("non-network", provider)
               THEN << Msg("OUT-NETWORK", "provider") >> ELSE << >>
        bl == IF HasDb(d) THEN get_blacklist_providers(d) ELSE QOk(DefaultBlacklist)
        hit == IF bl.ok /\ AnyInSeq(bl.val, LAMBDA b : In(Lower(b), provider))
               THEN << Msg("BLACKLIST", "match") >> ELSE << >>
        matched == IF nlp.ok
                   THEN SeqFilter(SUSPICIOUS_PHRASES, LAMBDA ph : In(ph, notes))
                        \o NlpPhrases(c.notes)
                   ELSE << >>
        text == IF notes # "" /\ nlp.ok /\ matched # << >>
                THEN << Msg("TEXT-FLAG", "phrases") >> ELSE << >>
    IN  [raised |-> ~bl.ok, alarms |-> late \o bank \o net \o hit \o text]

\* rules/high_amount.py
check_high_amount(c, d, avg) ==
    (IF c.amount > HIGH_AMOUNT_THRESHOLD
     THEN << Msg("HIGH-AMOUNT", "static") >> ELSE << >>)
    \o (IF HasDb(d) /\ avg.ok /\ avg.val > 0 /\ c.amount > 3 * avg.val
        THEN << Msg("HIGH-AMOUNT", "relative") >> ELSE << >>)

\* rules/repeat_claimant.py
check_repeat_claimant(c, d, cnt) ==
    IF HasDb(d) /\ cnt.ok /\ cnt.val >= REPEAT_CLAIM_THRESHOLD
    THEN << Msg("REPEAT-CLAIM", "count") >> ELSE << >>

\* rules/suspicious_keywords.py; nlp.val is the sentiment
check_suspicious_keywords(c, nlp) ==
    IF c.notes = "" \/ ~nlp.ok THEN << >>
    ELSE IF Len(NlpPhrases(c.notes)) > 0 THEN << Msg("SUSPICIOUS-KW", "phrases") >>
    ELSE IF nlp.val < -50 THEN << Msg("SUSPICIOUS-KW", "sentiment") >>
    ELSE << >>

\* rules/location_mismatch.py
check_location_mismatch(c, d, dist) ==
    IF c.location = "" \/ ~dist.ok THEN << >>
    ELSE IF dist.val > LOCATION_DISTANCE_THRESHOLD
         THEN << Msg("LOCATION-MISMATCH", "distance") >> ELSE << >>

\* rules/duplicate_claims.py; sim.val = -1: the claimant has no prior notes
check_duplicate_claims(c, d, sim) ==
    IF c.notes = "" \/ ~HasDb(d) \/ ~sim.ok \/ sim.val = -1 THEN << >>
    ELSE IF sim.val > SIMILARITY_THRESHOLD
         THEN << Msg("DUPLICATE-CLAIM", "similarity") >> ELSE << >>

\* utils/external_apis.py check_vendor_fraud: the risk score it reports
check_vendor_risk(vendor_name, d, api) ==
    IF api.ok THEN api.val
    ELSE IF HasDb(d)
         THEN LET bl == get_blacklist_providers(d)
              IN  IF bl.ok /\ AnyInSeq(bl.val, LAMBDA b : Lower(b) = Lower(vendor_name))
                  THEN 95 ELSE 0
         ELSE 0

\* rules/vendor_fraud.py
check_vendor_fraud(c, d, api) ==
    IF c.provider = "" THEN << >>
    ELSE LET bl == IF HasDb(d) THEN get_blacklist_providers(d) ELSE QOk(<< >>)
             blacklisted == bl.ok /\ AnyInSeq(bl.val,
                                LAMBDA b : In(Lower(c.provider), Lower(b)))
             risk_score == check_vendor_risk(c.provider, d, api)
         IN  (IF blacklisted THEN << Msg("VENDOR-FRAUD", "blacklisted") >> ELSE << >>)
             \o (IF blacklisted \/ risk_score > ML_FRAUD_THRESHOLD
                 THEN << Msg("VENDOR-FRAUD", "risk") >> ELSE << >>)

\* rules/time_patterns.py; gap.val = -1: no previous claim
check_time_patterns(c, d, gap) ==
    LET hour == c.timestamp[1]
        weekday == c.timestamp[2]
    IN  (IF hour \in UNUSUAL_HOURS THEN << Msg("TIME-PATTERN", "hour") >> ELSE << >>)
        \o (IF weekday \in {"Saturday", "Sunday"}
            THEN << Msg("TIME-PATTERN", "weekend") >> ELSE << >>)
        \o (IF HasDb(d) /\ gap.ok /\ gap.val # -1 /\ gap.val < MIN_GAP_HOURS
            THEN << Msg("TIME-PATTERN", "rapid") >> ELSE << >>)

\* rules/external_mismatch.py
check_external_mismatch(c, weather) ==
    LET notes == Lower(c.notes)
    IN  IF c.location = "" THEN << >>
        ELSE IF ~AnyInSeq(WEATHER_SENSITIVE_KEYWORDS, LAMBDA k : In(k, notes)) THEN << >>
        ELSE IF ~weather.ok THEN << >>
        ELSE (IF ~weather.val.is_rainy
              THEN << Msg("EXTERNAL-MISMATCH", "weather") >> ELSE << >>)
             \o (IF In("cold", notes) /\ weather.val.temp > COLD_TEMP_THRESHOLD
                 THEN << Msg("EXTERNAL-MISMATCH", "cold") >> ELSE << >>)


(***************************************************************************)
(* ml_inference.py: the module-level model handle and the scorer           *)
(***************************************************************************)
\* load_fraud_model(): file missing -> False; joblib.load raises -> False;
\* otherwise the handle is set
LoadFraudModel ==
    /\ \E exists \in BOOLEAN, loads \in BOOLEAN :
          IF exists /\ loads
          THEN model' = "loaded" /\ is_model_loaded' = TRUE
          ELSE UNCHANGED <<model, is_model_loaded>>
    /\ UNCHANGED <<config_env, callVars, policyVars, featVars, auxVars>>

\* _fallback_prob(alarms): min(100.0, len(alarms) * 10.0)
fallback_prob(alarm_list) == Min(10000, Len(alarm_list) * 1000)

\* model.predict_proba(...)[0][1]: raises, or a probability (hundredths)
PredictAnswers == {QFail, QOk(1), QOk(50), QOk(100)}

\* get_fraud_probability(features_array, alarms, db), given what predict does
get_fraud_probability(alarm_list, loaded, handle, predict) ==
    IF ~loaded \/ handle = "None"
    THEN [prob |-> fallback_prob(alarm_list), backend |-> "fallback"]
    ELSE IF predict.ok
         THEN [prob |-> predict.val * 100, backend |-> "model"]
         ELSE [prob |-> fallback_prob(alarm_list), backend |-> "fallback"]

(***************************************************************************)
(* POST /score_claim (score_claim_endpoint) and check_all_alarms           *)
(***************************************************************************)
NoFeatures == [amount_normalized |-> 0, delay_days |-> 0, is_new_bank |-> FALSE,
               is_out_of_network |-> FALSE, num_alarms |-> 0,
               high_severity_count |-> 0, repeat_count |-> 0]
NoResponse == [fraud_probability |-> -1, alarms |-> << >>, decision |-> "none",
               explanation |-> << >>]

\* the modular checks with the time-pattern check run first
ModularOrderTimeFirst == << "time_patterns", "high_amount", "repeat_claimant",
                           "suspicious_keywords", "location_mismatch",
                           "duplicate_claims", "vendor_fraud",
                           "external_mismatch" >>

\* the order of the modular checks in check_all_alarms
ModularOrder == << "high_amount", "repeat_claimant", "suspicious_keywords",
                   "location_mismatch", "duplicate_claims", "vendor_fraud",
                   "time_patterns", "external_mismatch" >>

\* position after the modular check at position now
AfterCheck(now) ==
    LET i == CHOOSE k \in 1..Len(ModularOrder) : ModularOrder[k] = now
    IN  IF i < Len(ModularOrder) THEN ModularOrder[i + 1] ELSE "returned"

\* a request body that passed ClaimData validation reaches the handler; or a
\* caller invokes check_all_alarms(claim, db) itself, possibly with db=None
Submit ==
    /\ pc = "idle"
    /\ \E e \in {"endpoint", "direct"} :
          /\ claim' \in IF e = "endpoint" THEN Claims \cup InvalidBodies
                                           ELSE Claims
          /\ entry' = e
          /\ db' \in IF e = "endpoint" THEN {"up", "readonly", "down"}
                                      ELSE {"none", "up", "down"}
          /\ pc' = IF e = "endpoint" THEN "deps" ELSE "legacy"
    /\ raw_alarms' = << >>
    /\ alarms' = << >>
    /\ fraud_prob' = -1
    /\ backend' = "none"
    /\ ml_failed' = FALSE
    /\ ml_enabled' = FALSE
    /\ features' = NoFeatures
    /\ saved' = "no"
    /\ outcome' = "none"
    /\ response' = NoResponse
    /\ UNCHANGED <<globalVars, policyVars, featVars, auxVars>>

\* dependencies.py require_ml_model(): True in local/test environments;
\* otherwise it evaluates is_model_loaded(), a call of the imported bool,
\* which raises TypeError (config has no ML_ENABLED, so the first operand
\* of the "or" is False)
RequireMlModel ==
    /\ pc = "deps"
    /\ IF config_env \in {"local", "dev", "development", "test", "testing"}
       THEN /\ ml_enabled' = TRUE
            /\ pc' = "validate"
            /\ UNCHANGED <<outcome, ml_failed>>
       ELSE /\ outcome' = "http500"
            /\ ml_failed' = ~is_model_loaded
            /\ pc' = "done"
            /\ UNCHANGED ml_enabled
    /\ UNCHANGED <<entry, claim, db, raw_alarms, alarms, fraud_prob, backend,
                   features, saved, response, globalVars, policyVars, featVars, auxVars>>

\* the request body is validated against ClaimData after the dependencies
\* have run and before the handler is entered; a body that fails is
\* answered 422 by validation_exception_handler
ValidateBody ==
    /\ pc = "validate"
    /\ IF ValidClaimData(claim)
       THEN /\ pc' = "legacy"
            /\ UNCHANGED outcome
       ELSE /\ outcome' = "http422"
            /\ pc' = "done"
    /\ UNCHANGED <<entry, claim, db, raw_alarms, alarms, fraud_prob, backend,
                   ml_failed, ml_enabled, features, saved, response,
                   globalVars, policyVars, featVars, auxVars>>

\* check_all_alarms, rules 1-5.  The blacklist query is outside any try: when
\* it raises the function raises, and the handler answers 500.
RunLegacyRules ==
    /\ pc = "legacy"
    /\ \E nlp \in NlpAnswers :
          LET r == LegacyRules(claim, db, nlp)
          IN  IF r.raised
              THEN /\ outcome' = IF entry = "endpoint" THEN "http500" ELSE "raised"
                   /\ pc' = "done"
                   /\ UNCHANGED raw_alarms
              ELSE /\ raw_alarms' = r.alarms
                   /\ pc' = ModularOrder[1]
                   /\ UNCHANGED outcome
    /\ UNCHANGED <<entry, claim, db, alarms, fraud_prob, backend, ml_failed,
                   ml_enabled, features, saved, response, globalVars, policyVars, featVars, auxVars>>

\* alarms += check_x(claim, db): each modular check handles its own failures
\* and returns a list
ModularStep(name, found) ==
    /\ pc = name
    /\ raw_alarms' = raw_alarms \o found
    /\ pc' = AfterCheck(name)
    /\ UNCHANGED <<entry, claim, db, alarms, fraud_prob, backend, ml_failed,
                   ml_enabled, features, saved, outcome, response, globalVars,
                   policyVars, featVars, auxVars>>

RunHighAmount ==
    \E avg \in QueryAnswers(db, AvgAmounts) :
        ModularStep("high_amount", check_high_amount(claim, db, avg))

RunRepeatClaimant ==
    \E cnt \in QueryAnswers(db, ClaimCounts) :
        ModularStep("repeat_claimant", check_repeat_claimant(claim, db, cnt))

RunSuspiciousKeywords ==
    \E nlp \in NlpAnswers :
        ModularStep("suspicious_keywords", check_suspicious_keywords(claim, nlp))

RunLocationMismatch ==
    \E dist \in DistanceAnswers :
        ModularStep("location_mismatch", check_location_mismatch(claim, db, dist))

RunDuplicateClaims ==
    \E sim \in QueryAnswers(db, Similarities) :
        ModularStep("duplicate_claims", check_duplicate_claims(claim, db, sim))

RunVendorFraud ==
    \E api \in VendorApiAnswers :
        ModularStep("vendor_fraud", check_vendor_fraud(claim, db, api))

RunTimePatterns ==
    \E gap \in QueryAnswers(db, GapHours) :
        ModularStep("time_patterns", check_time_patterns(claim, db, gap))

RunExternalMismatch ==
    \E weather \in WeatherAnswers :
        ModularStep("external_mismatch", check_external_mismatch(claim, weather))

\* the text before the first ":" of a message, lower-cased, blanks replaced
\* by "_" (values written into the text shown as {..})
AlarmType(m) ==
    CASE m.tag = "LATE-REPORT" -> "[late-report]_reported_{n}_days_after_incident_(limit"
      [] m.tag = "NEW-BANK" -> "[new-bank]_payout_requested_to_a_new_or_unverified_bank_account"
      [] m.tag = "OUT-NETWORK" -> "[out-network]_provider_{provider}_not_in_approved_insurer_network"
      [] m.tag = "BLACKLIST" -> "[blacklist]_provider_{provider}_flagged_(blacklist_match"
      [] m.tag = "TEXT-FLAG" -> "[text-flag]_suspicious_language_detected"
      [] m.tag = "HIGH-AMOUNT" /\ m.part = "static" -> "[high-amount]_claim_value_{amount}_exceeds_static_threshold_({threshold})."
      [] m.tag = "HIGH-AMOUNT" /\ m.part = "relative" -> "[high-amount]_claim_{amount}_is_{ratio}x_higher_than_12-month_claimant_average_({avg})."
      [] m.tag = "REPEAT-CLAIM" -> "[repeat-claim]_{n}_prior_claims_in_the_last_12_months_(threshold"
      [] m.tag = "SUSPICIOUS-KW" /\ m.part = "phrases" -> "[suspicious-kw]_{n}_suspicious_phrases_detected_-_{phrases}."
      [] m.tag = "SUSPICIOUS-KW" /\ m.part = "sentiment" -> "[suspicious-kw]_negative_sentiment_detected_(score={s})_-_possible_exaggeration_or_emotion."
      [] m.tag = "LOCATION-MISMATCH" -> "[location-mismatch]_{d}_miles_from_registered_address_{addr}_(threshold"
      [] m.tag = "DUPLICATE-CLAIM" -> "[duplicate-claim]_{s}_text_similarity_to_prior_claim_(threshold"
      [] m.tag = "VENDOR-FRAUD" /\ m.part = "blacklisted" -> "[vendor-fraud]_provider_{provider}_is_blacklisted_(internal_db_check)."
      [] m.tag = "VENDOR-FRAUD" /\ m.part = "risk" -> "[vendor-fraud]_provider_{provider}_risk={r}_-_{reason}."
      [] m.tag = "TIME-PATTERN" /\ m.part = "hour" -> "[time-pattern]_filed_at_{hh}"
      [] m.tag = "TIME-PATTERN" /\ m.part = "weekend" -> "[time-pattern]_claim_filed_on_{weekday}_({date})_-_outside_standard_business_days."
      [] m.tag = "TIME-PATTERN" /\ m.part = "rapid" -> "[time-pattern]_filed_{g}_hours_after_previous_claim_on_{date}_(threshold"
      [] m.tag = "EXTERNAL-MISMATCH" /\ m.part = "weather" -> "[external-mismatch]_weather-sensitive_claim_({keyword})_during_{condition}_weather_on_{date}_at_{location}."
      [] OTHER -> "[external-mismatch]_{cold_injury}_claimed_but_temperature_was_{t}c_on_{date}_at_{location}."

\* any(k in alarm_type for k in ["blacklist", "duplicate", "vendor", "external"])
HighKeywordInType(m) ==
    m.tag \in {"BLACKLIST", "DUPLICATE-CLAIM", "VENDOR-FRAUD", "EXTERNAL-MISMATCH"}

\* the FraudAlarm the handler builds from one message
ParseAlarm(m) ==
    [type |-> AlarmType(m), tag |-> m.tag, part |-> m.part,
     severity |-> IF HighKeywordInType(m) THEN "high" ELSE "medium"]

ParseAlarms(msgs) == [i \in 1..Len(msgs) |-> ParseAlarm(msgs[i])]

\* steps 1 (loop) and 2 of the handler
BuildAlarms ==
    /\ pc = "returned"
    /\ IF entry = "direct"
       THEN /\ outcome' = "alarms"
            /\ pc' = "done"
            /\ UNCHANGED <<alarms, features>>
       ELSE /\ alarms' = ParseAlarms(raw_alarms)
            /\ features' =
                 [amount_normalized |-> claim.amount \div 50,
                  delay_days |-> claim.report_delay_days,
                  is_new_bank |-> claim.is_new_bank,
                  is_out_of_network |-> In("out-of-network", Lower(claim.provider)),
                  num_alarms |-> Len(raw_alarms),
                  high_severity_count |-> HighCount(ParseAlarms(raw_alarms)),
                  repeat_count |-> 0]
            /\ pc' = "score"
            /\ UNCHANGED outcome
    /\ UNCHANGED <<entry, claim, db, raw_alarms, fraud_prob, backend, ml_failed,
                   ml_enabled, saved, response, globalVars, policyVars, featVars, auxVars>>

\* step 3 of the handler
ComputeProbability ==
    /\ pc = "score"
    /\ \E predict \in PredictAnswers :
          LET r == IF ml_enabled
                   THEN get_fraud_probability(alarms, is_model_loaded, model, predict)
                   ELSE [prob |-> Min(100, Len(alarms) * 10), backend |-> "fallback"]
          IN  /\ fraud_prob' = r.prob
              /\ backend' = r.backend
              /\ ml_failed' = (r.backend = "fallback")
    /\ pc' = "decide"
    /\ UNCHANGED <<entry, claim, db, raw_alarms, alarms, ml_enabled, features,
                   saved, outcome, response, globalVars, policyVars, featVars, auxVars>>

\* the explanation the handler formats (its variable parts)
Explanation(c, prob, decision, alarm_list) ==
    << c.amount, c.claimant_id, prob * 100, decision, Len(alarm_list),
       [i \in 1..Min(3, Len(alarm_list)) |-> alarm_list[i].type],
       IF decision = "Reject" THEN "High risk"
       ELSE IF decision = "Review" THEN "Moderate risk" ELSE "Low risk" >>

\* FraudResponse accepts 0 <= fraud_probability <= 1
ValidProbability(prob) == 0 <= prob /\ prob <= 100

\* save_claim_to_db(claim, response, db) inside the handler's try/except
SaveAnswers(d) == IF d = "up" THEN {"yes", "failed"} ELSE {"failed"}

\* steps 4-7 of the handler: get_decision(fraud_prob, len(alarms)), the
\* explanation, the save (its failure is logged and dropped) and the response;
\* ValueError -> 422, any other exception -> 500
ApplyDecisionPolicy ==
    /\ pc = "decide"
    /\ LET decision == get_decision(fraud_prob, PyInt(Len(alarms)))
       IN  IF decision = "TypeError"
           THEN /\ outcome' = "http500"
                /\ response' = NoResponse
                /\ UNCHANGED saved
           ELSE \E stored \in SaveAnswers(db) :
                   /\ saved' = stored
                   /\ IF ~ValidProbability(fraud_prob)
                      THEN /\ outcome' = "http422"
                           /\ response' = NoResponse
                      ELSE /\ outcome' = "result"
                           /\ response' =
                                [fraud_probability |-> fraud_prob,
                                 alarms |-> alarms,
                                 decision |-> decision,
                                 explanation |-> Explanation(claim, fraud_prob,
                                                             decision, alarms)]
    /\ pc' = "done"
    /\ UNCHANGED <<entry, claim, db, raw_alarms, alarms, fraud_prob, backend,
                   ml_failed, ml_enabled, features, globalVars, policyVars, featVars, auxVars>>

\* the call is over; the process waits for the next one
Complete ==
    /\ pc = "done"
    /\ pc' = "idle"
    /\ entry' = "endpoint"
    /\ claim' = NoClaim
    /\ db' = "up"
    /\ raw_alarms' = << >>
    /\ alarms' = << >>
    /\ fraud_prob' = -1
    /\ backend' = "none"
    /\ ml_failed' = FALSE
    /\ ml_enabled' = FALSE
    /\ features' = NoFeatures
    /\ saved' = "no"
    /\ outcome' = "none"
    /\ response' = NoResponse
    /\ UNCHANGED <<globalVars, policyVars, featVars, auxVars>>

(***************************************************************************)
(* ml_inference.py extract_features(claim, alarms, db)                     *)
(***************************************************************************)
\* longest alarm list handed to extract_features
MaxFeatureAlarms == 2

\* an alarm message as it stands in a list of strings
AsText(m) == [type |-> "", tag |-> m.tag, part |-> m.part, severity |-> "none"]

\* the strings the repository's own callers pass ("High claim amount",
\* "Vendor fraud: Provider risk 0.85", "Time pattern fraud")
PlainAlarms == { Msg("HIGH-AMOUNT", "plain"), Msg("VENDOR-FRAUD", "plain"),
                 Msg("TIME-PATTERN", "plain") }

\* messages written by the rule checks
RuleAlarms == { Msg("LATE-REPORT", "delay"), Msg("HIGH-AMOUNT", "static"),
                Msg("DUPLICATE-CLAIM", "similarity"),
                Msg("VENDOR-FRAUD", "blacklisted"), Msg("TIME-PATTERN", "hour"),
                Msg("EXTERNAL-MISMATCH", "weather") }

\* the elements an alarm list may hold: strings, or the FraudAlarm objects
\* the handler builds from the rule messages
FeatureAlarms ==
    {AsText(m) : m \in PlainAlarms \cup RuleAlarms}
      \cup {ParseAlarm(m) : m \in RuleAlarms}

\* word in str(a).lower(); str() of a FraudAlarm shows its type, description
\* and severity
Mentions(a, word) ==
    CASE word = "high" ->
            a.tag = "HIGH-AMOUNT" \/ a.severity = "high"
      [] word = "blacklist" ->
            a.tag = "BLACKLIST" \/ (a.tag = "VENDOR-FRAUD" /\ a.part = "blacklisted")
      [] word = "time pattern" -> a.tag = "TIME-PATTERN" /\ a.part = "plain"
      [] word = "vendor fraud" -> a.tag = "VENDOR-FRAUD" /\ a.part = "plain"
      [] word = "external mismatch" -> FALSE
      [] OTHER -> FALSE

\* the sum over the alarms whose text holds "high" or "blacklist"
TextHighCount(s) ==
    Cardinality({i \in 1..Len(s) :
                    Mentions(s[i], "high") \/ Mentions(s[i], "blacklist")})

\* the all-default FraudFeatures of the except branch
ZeroFeatures ==
    [amount_normalized |-> 0, delay_days |-> 0, is_new_bank |-> FALSE,
     is_out_of_network |-> FALSE, num_alarms |-> 0, high_severity_count |-> 0,
     repeat_count |-> 0, text_similarity_score |-> 0, location_distance |-> 0,
     time_anomaly_score |-> 0, suspicious_keyword_count |-> 0,
     sentiment_score |-> 0, vendor_risk_score |-> 0,
     external_mismatch_count |-> 0]

\* claim counts the COUNT(*) query of extract_features may return
FeatureCounts == {0, 2}

\* what the collaborators may answer during one call
FeatureSignals(d) ==
    [cnt : IF HasDb(d) THEN QueryAnswers(d, FeatureCounts) ELSE {QFail},
     nlp : NlpAnswers, dist : DistanceAnswers]

NoSignals == [cnt |-> QFail, nlp |-> QFail, dist |-> QFail]

\* the FraudFeatures built by the try body when nothing raises
extract_features_body(c, alarm_list, d, sig) ==
    [amount_normalized |-> Round2(c.amount * 2),
     delay_days |-> c.report_delay_days,
     is_new_bank |-> c.is_new_bank,
     is_out_of_network |-> In("out-of-network", Lower(c.provider)),
     num_alarms |-> Len(alarm_list),
     high_severity_count |->
         TextHighCount(alarm_list),
     repeat_count |-> IF HasDb(d) /\ sig.cnt.ok THEN sig.cnt.val ELSE 0,
     text_similarity_score |-> 0,
     location_distance |-> IF sig.dist.ok THEN sig.dist.val * 100 ELSE 0,
     time_anomaly_score |->
         IF AnyInSeq(alarm_list, LAMBDA a : Mentions(a, "time pattern"))
         THEN 100 ELSE 0,
     suspicious_keyword_count |-> Len(NlpPhrases(c.notes)),
     sentiment_score |-> sig.nlp.val,
     vendor_risk_score |->
         IF AnyInSeq(alarm_list, LAMBDA a : Mentions(a, "vendor fraud"))
         THEN 100 ELSE 0,
     external_mismatch_count |->
         IF AnyInSeq(alarm_list, LAMBDA a : Mentions(a, "external mismatch"))
         THEN 1 ELSE 0]

\* a variant of extract_features without the outer try/except: the
\* analyzer's exception leaves the function
extract_features_unguarded(c, alarm_list, d, sig) ==
    IF ~sig.nlp.ok
    THEN [raised |-> TRUE, failed |-> TRUE, features |-> ZeroFeatures]
    ELSE [raised |-> FALSE, failed |-> FALSE,
          features |-> extract_features_body(c, alarm_list, d, sig)]

\* extract_features(claim, alarms, db), given the collaborators' answers;
\* failed: the except branch returned the defaults
extract_features(c, alarm_list, d, sig) ==
    IF ~sig.nlp.ok
    THEN [raised |-> FALSE, failed |-> TRUE, features |-> ZeroFeatures]
    ELSE [raised |-> FALSE, failed |-> FALSE,
          features |-> extract_features_body(c, alarm_list, d, sig)]

NoExtract == [raised |-> FALSE, failed |-> FALSE, features |-> ZeroFeatures]

\* claims handed to extract_features
FeatureClaims == {c \in Claims : c.report_delay_days = 10 /\ c.is_new_bank}

FeatIdle ==
    /\ f_pc = "input"
    /\ f_claim = NoClaim
    /\ f_db = "none"
    /\ f_alarms = << >>
    /\ f_signals = NoSignals
    /\ f_out = NoExtract

FeatInit ==
    /\ f_pc = "input"
    /\ f_claim \in FeatureClaims
    /\ f_db \in {"none", "up"}
    /\ f_alarms = << >>
    /\ f_signals = NoSignals
    /\ f_out = NoExtract
    /\ config_env = "local"
    /\ model = "None"
    /\ is_model_loaded = FALSE

\* the caller builds the alarm list
FeatAddAlarm ==
    /\ f_pc = "input"
    /\ Len(f_alarms) < MaxFeatureAlarms
    /\ \E a \in FeatureAlarms : f_alarms' = Append(f_alarms, a)
    /\ UNCHANGED <<f_pc, f_claim, f_db, f_signals, f_out, globalVars, callVars,
                   policyVars, auxVars>>

\* features = extract_features(claim, alarms, db)
ExtractFeatures ==
    /\ f_pc = "input"
    /\ \E sig \in FeatureSignals(f_db) :
          /\ f_signals' = sig
          /\ f_out' = extract_features(f_claim, f_alarms, f_db, sig)
    /\ f_pc' = "done"
    /\ UNCHANGED <<f_claim, f_db, f_alarms, globalVars, callVars, policyVars, auxVars>>

FeatNext ==
    \/ FeatAddAlarm
    \/ ExtractFeatures

(***************************************************************************)
(* The in-memory cache (utils/cache.py): every function takes _cache_lock  *)
(* around its whole access to _cache_store                                 *)
(***************************************************************************)
MaxTime == 3

Threads == {1, 2}
CacheKeys == {"nlp:1", "vendor:shady_clinic"}
Prefixes == {"", "vendor:"}
\* k.startswith(prefix)
StartsWith(k, prefix) ==
    prefix = "" \/ (prefix = "vendor:" /\ k = "vendor:shady_clinic")

\* the (value, expire_seconds) pairs the callers store
CacheWrites == {<<"v1", 1>>, <<"v2", 2>>}

\* the dict without the key k
Without(store, k) == [j \in DOMAIN store \ {k} |-> store[j]]

\* a variant of cache_get that returns the entry without looking at its
\* expire_time
cache_get_stale(store, key, now) ==
    IF key \in DOMAIN store
    THEN [ret |-> store[key].value, store |-> store]
    ELSE [ret |-> "None", store |-> store]

\* cache_get(key) at time now: the value returned and the store afterwards
cache_get(store, key, now) ==
    IF key \in DOMAIN store
    THEN IF now < store[key].expire_time
         THEN [ret |-> store[key].value, store |-> store]
         ELSE [ret |-> "None", store |-> Without(store, key)]
    ELSE [ret |-> "None", store |-> store]

\* cache_set(key, value, expire_seconds) at time now: the store afterwards
cache_set(store, key, value, expire_seconds, now) ==
    [j \in DOMAIN store \cup {key} |->
        IF j = key THEN [value |-> value, expire_time |-> now + expire_seconds]
                   ELSE store[j]]

\* cache_delete(key)
cache_delete(store, key) == Without(store, key)

\* clear_cache(prefix)
clear_cache(store, prefix) ==
    [j \in {k \in DOMAIN store : ~StartsWith(k, prefix)} |-> store[j]]

NoOp == [name |-> "none", key |-> "", value |-> "", ttl |-> 0]

\* the calls a thread may make
CacheOps ==
    {[name |-> "set", key |-> k, value |-> w[1], ttl |-> w[2]] :
        k \in CacheKeys, w \in CacheWrites}
    \cup {[name |-> n, key |-> k, value |-> "", ttl |-> 0] :
        n \in {"get", "delete"}, k \in CacheKeys}
    \cup {[name |-> "clear", key |-> p, value |-> "", ttl |-> 0] : p \in Prefixes}

NoRead == [key |-> "", at |-> 0, ret |-> "None", had |-> FALSE,
           value |-> "None", expire_time |-> 0, removed |-> FALSE]

EmptyStore == [k \in {} |-> NoOp]

CacheIdle ==
    /\ cache_store = EmptyStore
    /\ cache_lock = 0
    /\ c_now = 0
    /\ c_op = [t \in Threads |-> NoOp]
    /\ c_latest = EmptyStore
    /\ c_last = NoRead

CacheInit ==
    /\ CacheIdle
    /\ config_env = "local"
    /\ model = "None"
    /\ is_model_loaded = FALSE

\* a thread calls one of the cache functions and takes the lock
CacheEnter(t) ==
    /\ c_op[t] = NoOp
    /\ cache_lock = 0
    /\ \E op \in CacheOps : c_op' = [c_op EXCEPT ![t] = op]
    /\ cache_lock' = t
    /\ UNCHANGED <<cache_store, c_now, c_latest, c_last, policyVars,
                   globalVars, callVars, featVars, explainVars, handleVars,
                   ruleVars, vendorVars>>

\* the body of the call, inside `with _cache_lock`, and the release
CacheBody(t) ==
    /\ cache_lock = t
    /\ LET op == c_op[t]
       IN  CASE op.name = "get" ->
                  LET r == cache_get(cache_store, op.key, c_now)
                      had == op.key \in DOMAIN c_latest
                  IN  /\ cache_store' = r.store
                      /\ c_last' =
                           [key |-> op.key, at |-> c_now, ret |-> r.ret,
                            had |-> had,
                            value |-> IF had THEN c_latest[op.key].value
                                             ELSE "None",
                            expire_time |->
                                IF had THEN c_latest[op.key].expire_time ELSE 0,
                            removed |-> op.key \notin DOMAIN r.store]
                      /\ UNCHANGED c_latest
             [] op.name = "set" ->
                  /\ cache_store' = cache_set(cache_store, op.key, op.value,
                                              op.ttl, c_now)
                  /\ c_latest' =
                       [k \in DOMAIN c_latest \cup {op.key} |->
                           IF k = op.key
                           THEN [value |-> op.value,
                                 expire_time |-> c_now + op.ttl]
                           ELSE c_latest[k]]
                  /\ UNCHANGED c_last
             [] op.name = "delete" ->
                  /\ cache_store' = cache_delete(cache_store, op.key)
                  /\ c_latest' = [k \in DOMAIN c_latest \ {op.key} |-> c_latest[k]]
                  /\ UNCHANGED c_last
             [] op.name = "clear" ->
                  /\ cache_store' = clear_cache(cache_store, op.key)
                  /\ c_latest' =
                       [k \in {j \in DOMAIN c_latest : ~StartsWith(j, op.key)}
                           |-> c_latest[k]]
                  /\ UNCHANGED c_last
    /\ c_op' = [c_op EXCEPT ![t] = NoOp]
    /\ cache_lock' = 0
    /\ UNCHANGED <<c_now, policyVars, globalVars, callVars, featVars,
                   explainVars, handleVars, ruleVars, vendorVars>>

\* time passes
CacheTick ==
    /\ c_now < MaxTime
    /\ c_now' = c_now + 1
    /\ UNCHANGED <<cache_store, cache_lock, c_op, c_latest, c_last, policyVars,
                   globalVars, callVars, featVars, explainVars, handleVars,
                   ruleVars, vendorVars>>

CacheNext ==
    \/ \E t \in Threads : CacheEnter(t)
    \/ \E t \in Threads : CacheBody(t)
    \/ CacheTick

(***************************************************************************)
(* The vendor check of concurrent scoring runs, on the shared cache        *)
(***************************************************************************)
\* runs in progress at the same time
Runs == {1, 2}

\* utils/external_apis.py: expire_seconds of a cached vendor result
VENDOR_CACHE_SECONDS == 86400

\* utils/external_apis.py check_vendor_fraud: cache_key
vendor_cache_key(vendor_name) == "vendor:" \o Lower(vendor_name)

\* utils/external_apis.py check_vendor_fraud: TRUE when the result it builds
\* comes from the API or from the blacklist, the two results it caches
vendor_result_cached(d, api) ==
    api.ok \/ (HasDb(d) /\ get_blacklist_providers(d).ok)

\* rules/vendor_fraud.py with the risk score check_vendor_risk reported
vendor_fraud_alarms(c, d, risk_score) ==
    IF c.provider = "" THEN << >>
    ELSE LET bl == IF HasDb(d) THEN get_blacklist_providers(d) ELSE QOk(<< >>)
             blacklisted == bl.ok /\ AnyInSeq(bl.val,
                                LAMBDA b : In(Lower(c.provider), Lower(b)))
         IN  (IF blacklisted THEN << Msg("VENDOR-FRAUD", "blacklisted") >> ELSE << >>)
             \o (IF blacklisted \/ risk_score > ML_FRAUD_THRESHOLD
                 THEN << Msg("VENDOR-FRAUD", "risk") >> ELSE << >>)

\* the arguments of a run and what the vendor API answers to its request
VendorInputs ==
    [claim : {[provider |-> p] : p \in Providers},
     db : {"none", "up", "down"},
     api : VendorApiAnswers]

NoVendorInput == [claim |-> [provider |-> ""], db |-> "none", api |-> QFail]

VendorIdle ==
    /\ v_pc = [r \in Runs |-> "idle"]
    /\ v_in = [r \in Runs |-> NoVendorInput]
    /\ v_out = [r \in Runs |-> << >>]

VendorInit ==
    /\ VendorIdle
    /\ CacheIdle
    /\ config_env = "local"
    /\ model = "None"
    /\ is_model_loaded = FALSE

\* a run reaches the vendor check: cache_get(cache_key); on a hit the cached
\* result is returned and the rule finishes with it
VendorLookup(r) ==
    /\ v_pc[r] = "idle"
    /\ \E inp \in VendorInputs :
          LET key == vendor_cache_key(inp.claim.provider)
              cached == cache_get(cache_store, key, c_now)
              hit == key \in DOMAIN cached.store
          IN  /\ v_in' = [v_in EXCEPT ![r] = inp]
              /\ cache_store' = cached.store
              /\ IF hit
                 THEN /\ v_out' = [v_out EXCEPT ![r] =
                            vendor_fraud_alarms(inp.claim, inp.db, cached.ret)]
                      /\ v_pc' = [v_pc EXCEPT ![r] = "done"]
                 ELSE /\ v_out' = [v_out EXCEPT ![r] = << >>]
                      /\ v_pc' = [v_pc EXCEPT ![r] = "missed"]
    /\ UNCHANGED <<cache_lock, c_now, c_op, c_latest, c_last, policyVars,
                   globalVars, callVars, featVars, explainVars, handleVars,
                   ruleVars>>

\* after a miss: the API request or the blacklist lookup, cache_set of the
\* result, and the rest of the rule
VendorFetch(r) ==
    /\ v_pc[r] = "missed"
    /\ LET inp == v_in[r]
           risk_score == check_vendor_risk(inp.claim.provider, inp.db, inp.api)
       IN  /\ cache_store' =
                 IF vendor_result_cached(inp.db, inp.api)
                 THEN cache_set(cache_store,
                                vendor_cache_key(inp.claim.provider),
                                risk_score, VENDOR_CACHE_SECONDS, c_now)
                 ELSE cache_store
           /\ v_out' = [v_out EXCEPT ![r] =
                 vendor_fraud_alarms(inp.claim, inp.db, risk_score)]
    /\ v_pc' = [v_pc EXCEPT ![r] = "done"]
    /\ UNCHANGED <<v_in, cache_lock, c_now, c_op, c_latest, c_last, policyVars,
                   globalVars, callVars, featVars, explainVars, handleVars,
                   ruleVars>>

\* the run returns; the cache keeps what it stored
VendorReturn(r) ==
    /\ v_pc[r] = "done"
    /\ v_pc' = [v_pc EXCEPT ![r] = "idle"]
    /\ v_in' = [v_in EXCEPT ![r] = NoVendorInput]
    /\ v_out' = [v_out EXCEPT ![r] = << >>]
    /\ UNCHANGED <<cacheVars, policyVars, globalVars, callVars, featVars,
                   explainVars, handleVars, ruleVars>>

VendorNext ==
    \/ \E r \in Runs : VendorLookup(r)
    \/ \E r \in Runs : VendorFetch(r)
    \/ \E r \in Runs : VendorReturn(r)

(***************************************************************************)
(* The history-dependent checks called as functions                        *)
(***************************************************************************)
\* claims handed to the checks
RuleClaims == {c \in Claims : c.report_delay_days = 2}

\* what the three history queries may answer on the session d
HistoryAnswers(d) ==
    [avg : QueryAnswers(d, AvgAmounts), cnt : QueryAnswers(d, ClaimCounts),
     sim : QueryAnswers(d, Similarities)]

NoHistory == [avg |-> QFail, cnt |-> QFail, sim |-> QFail]

NoRuleAlarms == [high_amount |-> << >>, repeat_claimant |-> << >>,
                 duplicate_claims |-> << >>]

RuleIdle ==
    /\ r_pc = "input"
    /\ r_claim = NoClaim
    /\ r_db = "none"
    /\ r_hist = NoHistory
    /\ r_out = NoRuleAlarms

RuleInit ==
    /\ r_pc = "input"
    /\ r_claim \in RuleClaims
    /\ r_db \in {"none", "up", "down"}
    /\ r_hist = NoHistory
    /\ r_out = NoRuleAlarms
    /\ config_env = "local"
    /\ model = "None"
    /\ is_model_loaded = FALSE

\* check_high_amount(claim, db), check_repeat_claimant(claim, db) and
\* check_duplicate_claims(claim, db)
RunHistoryChecks ==
    /\ r_pc = "input"
    /\ \E h \in HistoryAnswers(r_db) :
          /\ r_hist' = h
          /\ r_out' = [high_amount |-> check_high_amount(r_claim, r_db, h.avg),
                       repeat_claimant |->
                           check_repeat_claimant(r_claim, r_db, h.cnt),
                       duplicate_claims |->
                           check_duplicate_claims(r_claim, r_db, h.sim)]
    /\ r_pc' = "done"
    /\ UNCHANGED <<r_claim, r_db, policyVars, globalVars, callVars, featVars,
                   explainVars, handleVars, cacheVars, vendorVars>>

\* the next claim is handed to the checks
RuleReset ==
    /\ r_pc = "done"
    /\ r_pc' = "input"
    /\ r_claim' \in RuleClaims
    /\ r_db' \in {"none", "up", "down"}
    /\ r_hist' = NoHistory
    /\ r_out' = NoRuleAlarms
    /\ UNCHANGED <<policyVars, globalVars, callVars, featVars, explainVars,
                   handleVars, cacheVars, vendorVars>>

RuleNext ==
    \/ RunHistoryChecks
    \/ RuleReset

(***************************************************************************)
(* The module-level model handle: load_fraud_model and                     *)
(* get_fraud_probability called in any order                               *)
(***************************************************************************)
\* load_fraud_model(path): the return value and the handle after the call,
\* for a path that exists or not and a file that joblib.load reads or not
load_fraud_model_resetting(exists, loads, handle, loaded) ==
    IF ~exists
    THEN [ret |-> FALSE, model |-> handle, is_model_loaded |-> loaded]
    ELSE IF loads
         THEN [ret |-> TRUE, model |-> "loaded", is_model_loaded |-> TRUE]
         ELSE [ret |-> FALSE, model |-> "None", is_model_loaded |-> TRUE]

load_fraud_model(exists, loads, handle, loaded) ==
    IF ~exists
    THEN [ret |-> FALSE, model |-> handle, is_model_loaded |-> loaded]
    ELSE IF loads
         THEN [ret |-> TRUE, model |-> "loaded", is_model_loaded |-> TRUE]
         ELSE [ret |-> FALSE, model |-> handle, is_model_loaded |-> loaded]

\* get_fraud_probability reaches model.predict_proba
calls_model(loaded, handle) == ~(~loaded \/ handle = "None")

\* an alarms argument of n strings
AlarmStrings(n) == [i \in 1..n |-> "alarm"]

NoCall ==
    [op |-> "none", ret |-> FALSE, pre_model |-> "None", pre_loaded |-> FALSE,
     n |-> 0, called_model |-> FALSE, prob |-> -1, backend |-> "none"]

HandleIdle ==
    /\ h_last = NoCall
    /\ h_seen = {}

HandleInit ==
    /\ HandleIdle
    /\ config_env = "local"
    /\ model = "None"
    /\ is_model_loaded = FALSE

\* load_fraud_model()
HandleLoad ==
    /\ \E exists \in BOOLEAN, loads \in BOOLEAN :
          LET r == load_fraud_model(exists, loads, model, is_model_loaded)
          IN  /\ model' = r.model
              /\ is_model_loaded' = r.is_model_loaded
              /\ h_last' = [NoCall EXCEPT !.op = "load", !.ret = r.ret,
                                          !.pre_model = model,
                                          !.pre_loaded = is_model_loaded]
    /\ UNCHANGED <<h_seen, config_env, policyVars, callVars, featVars,
                   explainVars, ruleVars, cacheVars, vendorVars>>

\* get_fraud_probability(features_array, alarms)
HandleScore ==
    /\ \E n \in 0..MaxAlarms, predict \in PredictAnswers :
          LET r == get_fraud_probability(AlarmStrings(n), is_model_loaded,
                                         model, predict)
          IN  /\ h_last' = [NoCall EXCEPT
                              !.op = "score", !.pre_model = model,
                              !.pre_loaded = is_model_loaded, !.n = n,
                              !.called_model = calls_model(is_model_loaded, model),
                              !.prob = r.prob, !.backend = r.backend]
              /\ h_seen' = h_seen \cup {r}
    /\ UNCHANGED <<globalVars, policyVars, callVars, featVars, explainVars,
                   ruleVars, cacheVars, vendorVars>>

HandleNext ==
    \/ HandleLoad
    \/ HandleScore

(***************************************************************************)
(* Alarm explanations: GET /explain/{alarm_type} and the explanation       *)
(* service                                                                 *)
(***************************************************************************)
\* ALARM_EXPLANATIONS: the severity stored under each key
ALARM_EXPLANATIONS ==
    [k \in {"late_reporting", "new_bank_account", "out_of_network_provider",
            "blacklist_hit", "suspicious_text_phrases", "high_amount",
            "repeat_claimant", "suspicious_keywords", "location_mismatch",
            "duplicate_claims", "vendor_fraud", "time_pattern_fraud",
            "external_data_mismatch"} |->
        CASE k \in {"late_reporting", "new_bank_account",
                    "suspicious_text_phrases", "repeat_claimant",
                    "suspicious_keywords", "time_pattern_fraud"} -> "medium"
          [] k = "out_of_network_provider" -> "low"
          [] OTHER -> "high"]

\* the keys of the explanations dict of get_explanation_for_alarm
explanations ==
    {"high_amount", "shady_provider", "delayed_report", "new_bank",
     "repeat_claimant", "suspicious_keywords", "location_mismatch"}

\* alarm types a caller asks about
AlarmNames ==
    {"high_amount", "High Amount", " HIGH_AMOUNT ", "vendor_fraud",
     "shady_provider", "unknown_alarm"}

\* alarm_type.lower().replace(" ", "_")
EndpointKey(t) ==
    CASE t = "High Amount" -> "high_amount"
      [] t = " HIGH_AMOUNT " -> "_high_amount_"
      [] OTHER -> t

\* str(alarm_name).strip().lower()
ServiceKey(t) ==
    CASE t = "High Amount" -> "high amount"
      [] t = " HIGH_AMOUNT " -> "high_amount"
      [] OTHER -> t

\* get_current_user() called without its injected credentials: outside DEBUG
\* it reads .credentials of the Depends default, which raises
get_current_user(debug) ==
    IF debug THEN "user" ELSE "AttributeError"

\* authenticated_user(): the token of the request is never looked at
authenticated_user(env, debug) ==
    IF env = "local" \/ debug THEN "user"
    ELSE IF get_current_user(debug) = "user" THEN "user" ELSE "http401"

NoExplanation == [status |-> "none", type |-> "", severity |-> "none"]

\* GET /explain/{alarm_type}
explain_alarm_endpoint(t, env, debug) ==
    IF authenticated_user(env, debug) # "user"
    THEN [status |-> "http401", type |-> "", severity |-> "none"]
    ELSE LET alarm_key == EndpointKey(t)
         IN  IF alarm_key \notin DOMAIN ALARM_EXPLANATIONS
             THEN [status |-> "http404", type |-> "", severity |-> "none"]
             ELSE [status |-> "http200", type |-> alarm_key,
                   severity |-> ALARM_EXPLANATIONS[alarm_key]]

\* get_explanation_for_alarm(alarm_name)
get_explanation_for_alarm(t) ==
    LET alarm_key == ServiceKey(t)
    IN  IF alarm_key \in explanations
        THEN [status |-> "dict", type |-> alarm_key, severity |-> "none"]
        ELSE [status |-> "None", type |-> "", severity |-> "none"]

NoLookup ==
    [via |-> "endpoint", alarm_type |-> "", debug |-> TRUE, token |-> FALSE]

ExplainRequests ==
    [via : {"endpoint", "service"}, alarm_type : AlarmNames,
     debug : BOOLEAN, token : BOOLEAN]

ExplainIdle ==
    /\ x_pc = "input"
    /\ x_req = NoLookup
    /\ x_out = NoExplanation

ExplainInit ==
    /\ x_pc = "input"
    /\ x_req \in ExplainRequests
    /\ x_out = NoExplanation
    /\ config_env \in {"local", "production"}
    /\ model = "None"
    /\ is_model_loaded = FALSE

\* the lookup is answered
ExplainAlarm ==
    /\ x_pc = "input"
    /\ x_req.via = "endpoint"
    /\ x_out' = explain_alarm_endpoint(x_req.alarm_type, config_env, x_req.debug)
    /\ x_pc' = "done"
    /\ UNCHANGED <<x_req, policyVars, globalVars, callVars, featVars,
                   handleVars, ruleVars, cacheVars, vendorVars>>

GetExplanation ==
    /\ x_pc = "input"
    /\ x_req.via = "service"
    /\ x_out' = get_explanation_for_alarm(x_req.alarm_type)
    /\ x_pc' = "done"
    /\ UNCHANGED <<x_req, policyVars, globalVars, callVars, featVars,
                   handleVars, ruleVars, cacheVars, vendorVars>>

ExplainNext ==
    \/ ExplainAlarm
    \/ GetExplanation

\* no lookup, no other call in progress
AuxIdle ==
    /\ ExplainIdle
    /\ HandleIdle
    /\ RuleIdle
    /\ CacheIdle
    /\ VendorIdle

CallIdle ==
    /\ pc = "idle"
    /\ entry = "endpoint"
    /\ claim = NoClaim
    /\ db = "up"
    /\ raw_alarms = << >>
    /\ alarms = << >>
    /\ fraud_prob = -1
    /\ backend = "none"
    /\ ml_failed = FALSE
    /\ ml_enabled = FALSE
    /\ features = NoFeatures
    /\ saved = "no"
    /\ outcome = "none"
    /\ response = NoResponse

PolicyIdle ==
    /\ p_pc = "input"
    /\ p_prob = 0
    /\ p_alarms = << >>
    /\ p_decision = "none"
    /\ p_prev = "none"

Init ==
    /\ config_env \in {"local", "production"}
    /\ model = "None"
    /\ is_model_loaded = FALSE
    /\ CallIdle
    /\ PolicyIdle
    /\ FeatIdle
    /\ AuxIdle

Next ==
    \/ LoadFraudModel
    \/ Submit
    \/ RequireMlModel
    \/ ValidateBody
    \/ RunLegacyRules
    \/ RunHighAmount
    \/ RunRepeatClaimant
    \/ RunSuspiciousKeywords
    \/ RunLocationMismatch
    \/ RunDuplicateClaims
    \/ RunVendorFraud
    \/ RunTimePatterns
    \/ RunExternalMismatch
    \/ BuildAlarms
    \/ ComputeProbability
    \/ ApplyDecisionPolicy
    \/ Complete

(***************************************************************************)
(* The decision policy as a function: inputs and calls                     *)
(***************************************************************************)
\* probabilities tried, 0-100 scale in hundredths (20.0 is 2000)
ProbValues == {0, 1000, 1900, 2000, 2940, 2960, 3000, 4000, 5000, 6000,
               6900, 7000, 7500, 8000, 8500, 10000, 12000}

TestAlarm(sev) == [type |-> "test", severity |-> sev]

PolicyInit ==
    /\ p_pc = "input"
    /\ p_prob \in ProbValues
    /\ p_alarms = <<>>
    /\ p_decision = "none"
    /\ p_prev = "none"
    /\ config_env = "local"
    /\ model = "None"
    /\ is_model_loaded = FALSE
    /\ CallIdle
    /\ FeatIdle
    /\ AuxIdle

\* the caller builds the alarm list
PolicyAddAlarm(sev) ==
    /\ p_pc = "input"
    /\ Len(p_alarms) < MaxAlarms
    /\ p_alarms' = Append(p_alarms, TestAlarm(sev))
    /\ UNCHANGED <<p_pc, p_prob, p_decision, p_prev, globalVars, callVars, featVars, auxVars>>

\* decision = get_decision(prob, alarms)
PolicyDecide ==
    /\ p_pc = "input"
    /\ p_decision' = get_decision(p_prob, PyList(p_alarms))
    /\ p_pc' = "decided"
    /\ UNCHANGED <<p_prob, p_alarms, p_prev, globalVars, callVars, featVars, auxVars>>

\* the same call again with one more HIGH-severity alarm in the list
PolicyAddHigh ==
    /\ p_pc = "decided"
    /\ p_prev = "none"
    /\ Len(p_alarms) < MaxAlarms
    /\ p_prev' = p_decision
    /\ p_alarms' = Append(p_alarms, TestAlarm("high"))
    /\ p_decision' = get_decision(p_prob, PyList(p_alarms'))
    /\ UNCHANGED <<p_pc, p_prob, globalVars, callVars, featVars, auxVars>>

PolicyNext ==
    \/ \E sev \in Severities : PolicyAddAlarm(sev)
    \/ PolicyDecide
    \/ PolicyAddHigh

vars == <<policyVars, globalVars, callVars, featVars, auxVars>>

Spec == Init /\ [][Next]_vars

SpecPolicy == PolicyInit /\ [][PolicyNext]_vars

\* the state before a call of extract_features: no request in flight
FeatStart == FeatInit /\ CallIdle /\ PolicyIdle /\ AuxIdle

SpecFeatures == FeatStart /\ [][FeatNext]_vars

\* the state before an explanation lookup
ExplainStart ==
    ExplainInit /\ CallIdle /\ PolicyIdle /\ FeatIdle /\ HandleIdle
    /\ RuleIdle /\ CacheIdle /\ VendorIdle

SpecExplain == ExplainStart /\ [][ExplainNext]_vars

\* the state after import: no model, nothing called yet
HandleStart ==
    HandleInit /\ CallIdle /\ PolicyIdle /\ FeatIdle /\ ExplainIdle
    /\ RuleIdle /\ CacheIdle /\ VendorIdle

SpecHandle == HandleStart /\ [][HandleNext]_vars

\* the state before the checks are called
RuleStart ==
    RuleInit /\ CallIdle /\ PolicyIdle /\ FeatIdle /\ ExplainIdle
    /\ HandleIdle /\ CacheIdle /\ VendorIdle

SpecRules == RuleStart /\ [][RuleNext]_vars

\* the state after import: an empty cache, no thread inside a call
CacheStart ==
    CacheInit /\ CallIdle /\ PolicyIdle /\ FeatIdle /\ ExplainIdle
    /\ HandleIdle /\ RuleIdle /\ VendorIdle

SpecCache == CacheStart /\ [][CacheNext]_vars

\* the state after import: an empty cache, no run in progress
VendorStart ==
    VendorInit /\ CallIdle /\ PolicyIdle /\ FeatIdle /\ ExplainIdle
    /\ HandleIdle /\ RuleIdle

SpecVendor == VendorStart /\ [][VendorNext]_vars

(***************************************************************************)
(* Properties of the decision policy (checked under SpecPolicy)            *)
(***************************************************************************)
\* the decision the documented thresholds give: probabilities of 0.75 and
\* 0.30 are 7500 and 3000 on the scale get_decision is called with
DocumentedDecision(prob, s) ==
    IF prob >= 7500 \/ HighCount(s) >= 2 THEN "Reject"
    ELSE IF prob >= 3000 \/ Len(s) > 0 THEN "Review"
    ELSE "Approve"

\* C1: for every probability and alarm list get_decision returns Reject when
\* probability >= 0.75 or there are at least two HIGH alarms, otherwise
\* Review when probability >= 0.30 or the list is non-empty, otherwise Approve
C1_DecisionThresholds ==
    p_pc = "decided" => p_decision = DocumentedDecision(p_prob, p_alarms)

Rank(d) == CASE d = "Approve" -> 0 [] d = "Review" -> 1 [] d = "Reject" -> 2
             [] OTHER -> -1

\* C8: adding one HIGH-severity alarm to the list never lowers the decision
\* in the order Approve < Review < Reject (p_prev is the decision before the
\* alarm was added, p_decision the decision after)
C8_HighAlarmMonotone ==
    p_prev # "none" => Rank(p_decision) >= Rank(p_prev)

\* C8 witness: a HIGH alarm was added and it raised the decision to Reject
C8_Witness ==
    /\ p_prev = "Review"
    /\ p_decision = "Reject"
    /\ p_alarms # << >>
    /\ p_alarms[Len(p_alarms)].severity = "high"

\* every alarm of the list s has severity sev
AllOfSeverity(s, sev) == \A i \in 1..Len(s) : s[i].severity = sev

\* C25: get_decision returns Reject whenever the combined risk is above the
\* 0.70 review threshold, whatever the number of alarms (85 with no alarms,
\* 60 with two HIGH alarms, 80 with three HIGH alarms), and Review for 60
\* with two LOW alarms
C25_RejectAboveReviewThreshold ==
    (p_pc = "decided" /\ p_prob <= 10000) =>
        /\ (compute_risk_score(p_prob, p_alarms) > THRESHOLD_REVIEW
              /\ ~(Len(p_alarms) > 0 /\ AllOfSeverity(p_alarms, "low")))
              => p_decision = "Reject"
        /\ (p_prob = 8500 /\ p_alarms = << >>) => p_decision = "Reject"
        /\ (p_prob = 6000 /\ Len(p_alarms) = 2 /\ AllOfSeverity(p_alarms, "high"))
              => p_decision = "Reject"
        /\ (p_prob = 8000 /\ Len(p_alarms) = 3 /\ AllOfSeverity(p_alarms, "high"))
              => p_decision = "Reject"
        /\ (p_prob = 6000 /\ Len(p_alarms) = 2 /\ AllOfSeverity(p_alarms, "low"))
              => p_decision = "Review"

\* C26: with probability 20 and one or more alarms, all of LOW severity,
\* get_decision returns Review
C26_LowAlarmsNeverReject ==
    (p_pc = "decided" /\ p_prob = 2000 /\ Len(p_alarms) > 0
        /\ AllOfSeverity(p_alarms, "low")) => p_decision = "Review"

C2_EveryCallEndsWithDecision ==
    (pc = "done" /\ entry = "endpoint")
        => (outcome = "result" /\ response.decision \in Decisions)

\* C3: the fraud probability the handler computes for its result lies in
\* [0.0, 1.0], whichever backend produced it
C3_ProbabilityInUnitInterval ==
    (entry = "endpoint" /\ pc \in {"decide", "done"} /\ backend # "none")
        => (0 <= fraud_prob /\ fraud_prob <= 100)

\* C4: when the ML backend is unavailable or fails (model not loaded, predict
\* raising) the call does not end in an error: it still returns a result
C4_MlFailureNotAnError ==
    (pc = "done" /\ entry = "endpoint" /\ ml_failed)
        => outcome \notin {"http500", "http422", "http503"}

\* C5: whenever the ML backend is unavailable the probability used equals
\* min(1.0, num_alarms * 0.10) exactly
C5_FallbackProbability ==
    (entry = "endpoint" /\ pc \in {"decide", "done"} /\ backend = "fallback")
        => fraud_prob = Min(100, Len(alarms) * 10)

\* C6: a check that raises or finds its signal unavailable contributes no
\* alarm and the other checks still run; check_all_alarms never raises
C6_CheckAllAlarmsNeverRaises ==
    (pc = "done" /\ entry = "direct") => outcome = "alarms"

\* C7: when the audit save cannot succeed the caller still gets the scoring
\* result, as if the save had succeeded
C7_SaveFailureKeepsResponse ==
    (pc = "done" /\ entry = "endpoint" /\ db = "readonly" /\ config_env = "local")
        => (outcome = "result" /\ saved = "failed")

\* the kind of an alarm: the bracketed tag its check writes
TypeOf(m) == m.tag

\* C10: in the alarm list of one run no two alarms have the same type
C10_OneAlarmPerType ==
    \A i, j \in 1..Len(raw_alarms) :
        i # j => TypeOf(raw_alarms[i]) # TypeOf(raw_alarms[j])

\* position of each check in the documented execution order
CheckRank(tag) ==
    CASE tag = "LATE-REPORT" -> 1
      [] tag = "NEW-BANK" -> 2
      [] tag = "OUT-NETWORK" -> 3
      [] tag = "BLACKLIST" -> 4
      [] tag = "TEXT-FLAG" -> 5
      [] tag = "HIGH-AMOUNT" -> 6
      [] tag = "REPEAT-CLAIM" -> 7
      [] tag = "SUSPICIOUS-KW" -> 8
      [] tag = "LOCATION-MISMATCH" -> 9
      [] tag = "DUPLICATE-CLAIM" -> 10
      [] tag = "VENDOR-FRAUD" -> 11
      [] tag = "TIME-PATTERN" -> 12
      [] tag = "EXTERNAL-MISMATCH" -> 13
      [] OTHER -> 0

InCheckOrder(s) ==
    \A i, j \in 1..Len(s) : i < j => CheckRank(s[i].tag) <= CheckRank(s[j].tag)

DocumentedSeverity(tag) ==
    IF tag \in {"BLACKLIST", "DUPLICATE-CLAIM", "VENDOR-FRAUD",
                "EXTERNAL-MISMATCH", "HIGH-AMOUNT"} THEN "high"
    ELSE IF tag = "OUT-NETWORK" THEN "low"
    ELSE "medium"

\* C12: alarms of the blacklist, duplicate-claims, vendor-fraud,
\* external-mismatch and high-amount checks have severity HIGH, the
\* out-of-network alarm LOW, every other alarm MEDIUM
C12_SeverityAssignment ==
    \A i \in 1..Len(alarms) :
        alarms[i].severity = DocumentedSeverity(alarms[i].tag)


(***************************************************************************)
(* Properties of extract_features (checked under SpecFeatures)             *)
(***************************************************************************)
\* C13: extract_features never propagates an exception; when the text
\* analyzer raises it returns a FraudFeatures whose 14 fields are all
\* zero/false
C13_FeaturesNeverRaise ==
    f_pc = "done" =>
        /\ ~f_out.raised
        /\ (~f_signals.nlp.ok => f_out.features = ZeroFeatures)

\* C13 witness: the analyzer raised during a call on a non-empty alarm list
\* and the caller got the all-zero vector
C13_Witness ==
    /\ f_pc = "done"
    /\ ~f_signals.nlp.ok
    /\ f_alarms # << >>
    /\ ~f_out.raised
    /\ f_out.features = ZeroFeatures

\* C14: when the text-analysis provider is unavailable the three text
\* features are 0 while amount_normalized, delay_days, is_new_bank,
\* is_out_of_network, num_alarms and high_severity_count still carry the
\* values derived from the claim and the alarms
C14_TextDefaultsOnly ==
    (f_pc = "done" /\ ~f_signals.nlp.ok) =>
        /\ f_out.features.text_similarity_score = 0
        /\ f_out.features.sentiment_score = 0
        /\ f_out.features.suspicious_keyword_count = 0
        /\ f_out.features.amount_normalized = Round2(f_claim.amount * 2)
        /\ f_out.features.delay_days = f_claim.report_delay_days
        /\ f_out.features.is_new_bank = f_claim.is_new_bank
        /\ f_out.features.is_out_of_network
             = In("out-of-network", Lower(f_claim.provider))
        /\ f_out.features.num_alarms = Len(f_alarms)

\* C15: in the feature vector num_alarms is the length of the alarm list and
\* high_severity_count the number of its alarms whose severity is HIGH
\* (stated for lists of FraudAlarm objects, which carry a severity)
C15_AlarmCounts ==
    (f_pc = "done" /\ ~f_out.failed
       /\ \A i \in 1..Len(f_alarms) : f_alarms[i].severity # "none") =>
        /\ f_out.features.num_alarms = Len(f_alarms)
        /\ f_out.features.high_severity_count = HighCount(f_alarms)

HasTag(s, tag) == \E i \in 1..Len(s) : s[i].tag = tag /\ s[i].part # "plain"

\* C16: time_anomaly_score is 1.0 iff the list holds a time-pattern alarm,
\* vendor_risk_score is non-zero iff it holds a vendor-fraud alarm,
\* external_mismatch_count is non-zero iff it holds an external-mismatch
\* alarm (lists of the messages the rule checks emit)
C16_AlarmDerivedFeatures ==
    (f_pc = "done" /\ ~f_out.failed
       /\ \A i \in 1..Len(f_alarms) : f_alarms[i].part # "plain") =>
        /\ (f_out.features.time_anomaly_score = 100
              <=> HasTag(f_alarms, "TIME-PATTERN"))
        /\ (f_out.features.vendor_risk_score # 0
              <=> HasTag(f_alarms, "VENDOR-FRAUD"))
        /\ (f_out.features.external_mismatch_count # 0
              <=> HasTag(f_alarms, "EXTERNAL-MISMATCH"))

(***************************************************************************)
(* End-to-end scenarios and request validation (checked under Spec)        *)
(***************************************************************************)
HighRiskClaim ==
    [claimant_id |-> "c1", amount |-> 15000, report_delay_days |-> 10,
     provider |-> "shady_clinic", notes |-> "Staged accident for quick cash",
     location |-> "Los Angeles, CA", is_new_bank |-> TRUE,
     timestamp |-> <<3, "Saturday">>]

\* C17: scoring the claim amount=15000, report_delay_days=10,
\* provider="shady_clinic", notes with "staged accident", is_new_bank=true,
\* location="Los Angeles, CA" yields at least 4 alarms and the decision Reject
C17_HighRiskScenario ==
    (pc = "done" /\ entry = "endpoint" /\ claim = HighRiskClaim
       /\ config_env = "local" /\ db = "up") =>
        /\ Len(alarms) >= 4
        /\ outcome = "result"
        /\ response.decision = "Reject"

\* the low-risk claim of the scenario, at any submission time
LowRisk(c) ==
    /\ c.amount = 2000
    /\ c.report_delay_days = 2
    /\ c.provider = "Trusted Clinic"
    /\ c.notes = "Normal minor claim."
    /\ ~c.is_new_bank

\* C18: the claim amount=2000, report_delay_days=2, provider="Trusted
\* Clinic", benign notes, is_new_bank=false yields zero alarms whatever its
\* submission time (here: check_all_alarms called without a store, and no
\* alarm of a check other than the time check)
C18_LowRiskScenario ==
    (pc = "done" /\ entry = "direct" /\ db = "none" /\ LowRisk(claim)
       /\ \A i \in 1..Len(raw_alarms) : raw_alarms[i].tag = "TIME-PATTERN") =>
        /\ outcome = "alarms"
        /\ raw_alarms = << >>

\* C19: scoring the claim amount=8000, report_delay_days=5 with an
\* out-of-network provider yields between 1 and 4 alarms and the decision
\* Review
C19_MediumRiskScenario ==
    (pc = "done" /\ entry = "endpoint" /\ claim = MediumRiskClaim
       /\ config_env = "local" /\ db = "up") =>
        /\ Len(alarms) >= 1
        /\ Len(alarms) <= 4
        /\ outcome = "result"
        /\ response.decision = "Review"

\* C20: a request whose body fails validation (amount <= 0, claimant_id
\* missing) is rejected with a structured validation error before any rule
\* check, ML scoring or persistence runs
C20_InvalidRequestRejected ==
    (pc = "done" /\ entry = "endpoint" /\ ~ValidClaimData(claim)) =>
        /\ outcome = "http422"
        /\ raw_alarms = << >>
        /\ backend = "none"
        /\ saved = "no"
        /\ response = NoResponse


(***************************************************************************)
(* Properties of the explanation lookups (checked under SpecExplain)       *)
(***************************************************************************)
\* C21: a lookup of an unknown alarm type ends with "not found" (404 from
\* the endpoint, None from the service) and never with an error; a lookup
\* of a known alarm type returns the explanation stored under that type
C21_UnknownAlarmNotFound ==
    (x_pc = "done") =>
        IF x_req.via = "endpoint"
        THEN IF EndpointKey(x_req.alarm_type) \in DOMAIN ALARM_EXPLANATIONS
             THEN /\ x_out.status = "http200"
                  /\ x_out.type = EndpointKey(x_req.alarm_type)
             ELSE x_out.status = "http404"
        ELSE IF ServiceKey(x_req.alarm_type) \in explanations
             THEN /\ x_out.status = "dict"
                  /\ x_out.type = ServiceKey(x_req.alarm_type)
             ELSE x_out.status = "None"

(***************************************************************************)
(* Properties of the model handle (checked under SpecHandle)               *)
(***************************************************************************)
\* C22: a result computed by the fallback heuristic is distinguishable from
\* a result computed by the model: no value is returned by both branches
C22_FallbackIsMarked ==
    \A r1 \in h_seen, r2 \in h_seen :
        (r1.prob = r2.prob) => (r1.backend = r2.backend)

HasStaticHighAmount(s) ==
    \E i \in 1..Len(s) : s[i] = Msg("HIGH-AMOUNT", "static")

\* an alarm of a history-dependent sub-rule is in the list s
HasHistoryAlarm(s) ==
    \E i \in 1..Len(s) :
        \/ s[i].tag \in {"REPEAT-CLAIM", "DUPLICATE-CLAIM"}
        \/ s[i] = Msg("HIGH-AMOUNT", "relative")

\* called as functions, the three checks skip silently when the session is
\* missing or a history query fails, and the static threshold still applies
HistoryChecksSkipSilently ==
    (r_pc = "done") =>
        /\ (~HasDb(r_db) \/ ~r_hist.cnt.ok) => r_out.repeat_claimant = << >>
        /\ (~HasDb(r_db) \/ ~r_hist.sim.ok) => r_out.duplicate_claims = << >>
        /\ (~HasDb(r_db) \/ ~r_hist.avg.ok) =>
              ~HasHistoryAlarm(r_out.high_amount)
        /\ HasStaticHighAmount(r_out.high_amount) <=>
              (r_claim.amount > HIGH_AMOUNT_THRESHOLD)

\* C23: a run of check_all_alarms without a usable history store (no session,
\* or a session whose queries fail) ends without raising, with no alarm of a
\* history-dependent check, and with the static high-amount alarm exactly
\* when the amount is above the absolute threshold
C23_HistoryUnavailable ==
    (pc = "done" /\ entry = "direct" /\ db \in {"none", "down"}) =>
        /\ outcome = "alarms"
        /\ ~HasHistoryAlarm(raw_alarms)
        /\ HasStaticHighAmount(raw_alarms) <=>
              (claim.amount > HIGH_AMOUNT_THRESHOLD)

\* C28: the repeat-claimant check raises its alarm exactly when the count of
\* the claimant's claims in the window is above REPEAT_CLAIM_THRESHOLD
C28_RepeatClaimantThreshold ==
    (r_pc = "done") =>
        (r_out.repeat_claimant # << >>) <=>
            (HasDb(r_db) /\ r_hist.cnt.ok
                /\ r_hist.cnt.val > REPEAT_CLAIM_THRESHOLD)

(***************************************************************************)
(* Properties of the in-memory cache (checked under SpecCache)             *)
(***************************************************************************)
\* C30: a cache_get returns the value of the latest cache_set on its key
\* exactly when that set has not expired and no delete or clear of the key
\* came after it, and None otherwise; it never returns an expired value;
\* and a read that finds an expired entry removes it from the store
C30_CacheReads ==
    (c_last # NoRead) =>
        /\ c_last.ret =
              IF c_last.had /\ c_last.at < c_last.expire_time
              THEN c_last.value ELSE "None"
        /\ (c_last.ret # "None") => c_last.at < c_last.expire_time
        /\ (c_last.had /\ c_last.at >= c_last.expire_time) => c_last.removed

\* a read found its entry expired and removed it, the store still holds an
\* entry under the other key, and a thread is inside its next call
C30_Witness ==
    /\ c_last.had /\ c_last.at >= c_last.expire_time
    /\ c_last.ret = "None" /\ c_last.removed
    /\ cache_lock # 0
    /\ cache_store # EmptyStore

(***************************************************************************)
(* Concurrent runs and the shared cache (checked under SpecVendor)         *)
(***************************************************************************)
\* C24: runs share no mutable state that changes their results: the vendor
\* alarms of a finished run are those the run produces alone, from its own
\* claim, db argument and API answer, whatever other runs did before or
\* between its steps
C24_RunsIndependent ==
    \A r \in Runs :
        (v_pc[r] = "done") =>
            v_out[r] = check_vendor_fraud(v_in[r].claim, v_in[r].db, v_in[r].api)

=============================================================================
